---- MODULE Spec2Model ----
(***************************************************************************)
(* scripts/sync_leetcode.py: incremental mirror of a user's submissions.   *)
(*                                                                         *)
(* The model has three parts.                                              *)
(*   - the remote judge (environment): the submission list, newest first,  *)
(*     and what the submissionDetail query answers for each id;            *)
(*   - the disk: the checkpoint file .leetcode_state.json, the artifact    *)
(*     files and the directories;                                          *)
(*   - one process running main(), cut at its I/O operations (a page       *)
(*     request, a detail request, opening a file, writing it), because the *)
(*     process can be killed between any two of them.                      *)
(* Runs are sequential: a run starts only when no run is in progress, and  *)
(* the remote is taken to be stable while a run is in progress.            *)
(*                                                                         *)
(* Text is modelled structurally: a decimal string is the tuple of its     *)
(* digits, a path is the tuple of its components, a file's content is the  *)
(* tuple of its header lines followed by the code.                         *)
(***************************************************************************)
EXTENDS Integers, Sequences, FiniteSets, TLC

\* ------------------------------------------------------------------ bounds
\* number of distinct submission ids the remote can hold
NumIds == 2
\* the remote serves at most this many submissions per page
ServerPageCap == 1
\* number of invocations of the script
MaxRuns == 2
\* number of ticks of the wall clock
MaxClock == 1

\* ---------------------------------------------------------------- constants
BATCH_SIZE == 50

OUT_DIR == "leetcode"

\* ids of different decimal lengths, so that numeric and textual order differ
IdPool == <<9, 10, 2, 33>>
Ids == {IdPool[i] : i \in 1..NumIds}

Min(a, b) == IF a <= b THEN a ELSE b

Range(s) == {s[i] : i \in 1..Len(s)}

\* str(n) for a natural number: the tuple of its decimal digits
RECURSIVE str(_)
str(n) == IF n < 10 THEN <<n>> ELSE str(n \div 10) \o <<n % 10>>

\* int(s) for a decimal string
RECURSIVE int(_)
int(s) == IF Len(s) = 0 THEN 0
          ELSE 10 * int(SubSeq(s, 1, Len(s) - 1)) + s[Len(s)]

\* reversed(seq)
Reversed(s) == [i \in 1..Len(s) |-> s[Len(s) + 1 - i]]

\* sorted(list(S), key=int) for a set of decimal strings
RECURSIVE SortedByInt(_)
SortedByInt(S) ==
    IF S = {} THEN <<>>
    ELSE LET m == CHOOSE x \in S : \A y \in S : int(x) <= int(y)
         IN <<m>> \o SortedByInt(S \ {m})

\* --------------------------------------------------------------- LANG_EXT
LangKeys == {"python3", "python", "cpp", "c++", "java", "javascript", "js",
             "c", "c#", "csharp", "ruby", "swift", "go", "golang", "kotlin",
             "scala"}

LANG_EXT(l) ==
    CASE l = "python3"    -> <<"py", "#">>
      [] l = "python"     -> <<"py", "#">>
      [] l = "cpp"        -> <<"cpp", "//">>
      [] l = "c++"        -> <<"cpp", "//">>
      [] l = "java"       -> <<"java", "//">>
      [] l = "javascript" -> <<"js", "//">>
      [] l = "js"         -> <<"js", "//">>
      [] l = "c"          -> <<"c", "//">>
      [] l = "c#"         -> <<"cs", "//">>
      [] l = "csharp"     -> <<"cs", "//">>
      [] l = "ruby"       -> <<"rb", "#">>
      [] l = "swift"      -> <<"swift", "//">>
      [] l = "go"         -> <<"go", "//">>
      [] l = "golang"     -> <<"go", "//">>
      [] l = "kotlin"     -> <<"kt", "//">>
      [] l = "scala"      -> <<"scala", "//">>

\* LANG_EXT.get(lang, ("txt", "//"))
LangExtGet(l) == IF l \in LangKeys THEN LANG_EXT(l) ELSE <<"txt", "//">>

\* the language tag is looked up as the remote sent it
LowerNot(l) == l

\* str.lower() on the language tags the remote sends
Lower(l) ==
    CASE l = "Python3"   -> "python3"
      [] l = "C++"       -> "c++"
      [] l = "Brainfuck" -> "brainfuck"
      [] l = "Java"      -> "java"
      [] OTHER           -> l

\* ----------------------------------------------------- the remote's answers
\* What the submissionDetail query answers for an id is one of these kinds:
\*   "raise"  the request fails (timeout, non-2xx, undecodable body)
\*   "null"   the answer holds no detail (submissionDetail is null)
\*   the others are detail records, see DetailOf
DetailKinds == {"py", "bf", "wa", "java"}
Kinds == {"raise", "null"} \cup DetailKinds

TwoSum == [present |-> TRUE, title |-> "Two Sum", titleSlug |-> "two-sum",
           questionFrontendId |-> "1"]
NoQuestion == [present |-> FALSE, title |-> "", titleSlug |-> "",
               questionFrontendId |-> ""]

\* the detail record of kind k for submission id; timestamp 0 is an absent
\* (null) timestamp
DetailOf(id, k) ==
    CASE k = "py" ->
           [id |-> id, code |-> "print(1)", runtime |-> "1 ms",
            memory |-> "2 MB", statusDisplay |-> "Accepted",
            lang |-> "Python3", timestamp |-> 7, question |-> TwoSum]
      [] k = "bf" ->
           [id |-> id, code |-> "+.", runtime |-> "3 ms",
            memory |-> "4 MB", statusDisplay |-> "Accepted",
            lang |-> "Brainfuck", timestamp |-> 0, question |-> TwoSum]
      [] k = "wa" ->
           [id |-> id, code |-> "int x;", runtime |-> "N/A",
            memory |-> "N/A", statusDisplay |-> "Wrong Answer",
            lang |-> "C++", timestamp |-> 7, question |-> TwoSum]
      [] k = "java" ->
           [id |-> id, code |-> "class A{}", runtime |-> "5 ms",
            memory |-> "6 MB", statusDisplay |-> "Accepted",
            lang |-> "Java", timestamp |-> 0, question |-> NoQuestion]

\* duplicate-free sequences over a set of ids: the listings a remote can hold
RECURSIVE Listings(_)
Listings(S) ==
    {<<>>} \cup UNION {{<<x>> \o t : t \in Listings(S \ {x})} : x \in S}

\* ------------------------------------------------------------------ header
\* time.strftime("%Y-%m-%d %H:%M:%S", time.localtime(ts))
Strftime(ts) == <<"%Y-%m-%d %H:%M:%S", ts>>

\* make_header: "\n".join of nine metadata lines and a final empty string,
\* so the text ends with the newline that closes the ninth line
make_header(prefix, title, slug, qid, sub_id, status, lang, runtime, memory, ts) ==
    <<  <<prefix, " Title: ", title>>, "\n",
        <<prefix, " URL: https://leetcode.com/problems/", slug, "/">>, "\n",
        <<prefix, " Question ID: ", qid>>, "\n",
        <<prefix, " Submission ID: ", str(sub_id)>>, "\n",
        <<prefix, " Status: ", status>>, "\n",
        <<prefix, " Language: ", lang>>, "\n",
        <<prefix, " Runtime: ", runtime>>, "\n",
        <<prefix, " Memory: ", memory>>, "\n",
        <<prefix, " Timestamp: ", Strftime(ts)>>, "\n",
        ""  >>

\* ------------------------------------------------------------------ writer
\* main, lines 175-182: the fields read from a detail, with their defaults
QuestionTitle(d) == IF d.question.present THEN d.question.title ELSE "unknown-title"
QuestionId(d) == IF d.question.present THEN d.question.questionFrontendId ELSE ""
\* f"unknown-{question.get('questionFrontendId','')}" with no question is "unknown-"
QuestionSlug(d) == IF d.question.present THEN d.question.titleSlug ELSE "unknown-"

\* OUT_DIR / f"{qid}_{slug}"
FolderOf(d) == <<OUT_DIR, <<QuestionId(d), "_", QuestionSlug(d)>>>>

\* folder / f"{qid}-{slug}-{sid}.{ext}"
FilenameOf(d, sid) ==
    FolderOf(d) \o << <<QuestionId(d), "-", QuestionSlug(d), "-", str(sid), ".",
                        LangExtGet(Lower(d.lang))[1]>> >>

\* detail.get("timestamp") or int(time.time())
TimestampOr(d, now) == IF d.timestamp # 0 THEN d.timestamp ELSE now

\* content = header + code
ContentOf(d, sid, now) ==
    make_header(LangExtGet(Lower(d.lang))[2], QuestionTitle(d), QuestionSlug(d),
                QuestionId(d), sid, d.statusDisplay, d.lang, d.runtime, d.memory,
                TimestampOr(d, now)) \o <<d.code>>

\* the status filter never applies
IsFilteredNever(only, d) == FALSE

\* the status filter applies whatever ONLY_ACCEPTED is
IsFilteredByStatusOnly(only, d) == d.statusDisplay # "Accepted"

\* ONLY_ACCEPTED and status != "Accepted"
IsFiltered(only, d) == only /\ d.statusDisplay # "Accepted"

\* --------------------------------------------------------------------- state
VARIABLES
    \* the remote judge and the wall clock
    remoteList,      \* the submissions' ids, newest first
    remoteDetail,    \* id -> kind of answer of the submissionDetail query
    clock,           \* int(time.time())
    \* the disk
    checkpoint,      \* STATE_FILE: [exists, torn, ids]
    files,           \* path -> [torn, data]
    dirs,            \* the directories that exist
    \* the process running main()
    pc,              \* "idle", "listing", "loop", "writing", "saving"
    USERNAME,        \* LEETCODE_USERNAME of this invocation ("" when unset)
    SESSION_COOKIE,  \* LEETCODE_SESSION of this invocation ("" when unset)
    ONLY_ACCEPTED,   \* the configuration of this invocation
    processed,       \* the set of processed ids (decimal strings)
    submissions,     \* fetch_submission_pages: the list so far
    offset,          \* fetch_submission_pages: the offset of the next page
    new_ids,         \* the ids to process, in listing order
    pos,             \* how many elements of reversed(new_ids) were visited
    pending,         \* the file being written: [sid, kind, path, data]
    \* history
    runs,            \* invocations so far
    exit,            \* how the last invocation ended
    startCheckpoint, \* the checkpoint when the current invocation started
    startFiles,      \* the files when the current invocation started
    startDirs,       \* the directories when the current invocation started
    fetchLog,        \* the detail requests of this invocation: [id, outcome]
    pageLog,         \* the offsets of the page requests of this invocation
    saves,           \* the calls of save_state in this invocation
    saved,           \* the ids of every checkpoint completely written so far
    wrote,           \* id -> the last completed write: [kind, path, data]
    stable,          \* the remote has not changed since this invocation started
    listFailed,      \* a page request of this invocation failed
    prev             \* how the previous invocation went, see StartRun

env == <<remoteList, remoteDetail, clock>>
disk == <<checkpoint, files, dirs>>
creds == <<USERNAME, SESSION_COOKIE>>
locals == <<creds, ONLY_ACCEPTED, processed, submissions, offset, new_ids, pos, pending>>
history == <<runs, exit, startCheckpoint, startFiles, startDirs, fetchLog,
             pageLog, saves, saved, wrote, stable, listFailed, prev>>
vars == <<env, disk, pc, locals, history>>

NoCheckpoint == [exists |-> FALSE, torn |-> FALSE, ids |-> <<>>]
TornCheckpoint == [exists |-> TRUE, torn |-> TRUE, ids |-> <<>>]
TornFile == [torn |-> TRUE, data |-> <<>>]
NoPending == [sid |-> 0, kind |-> "none", path |-> <<>>, data |-> <<>>]
NoWrite == [kind |-> "none", path |-> <<>>, data |-> <<>>]
NoPrev == [exit |-> "none", stable |-> FALSE, only |-> FALSE,
           checkpoint |-> NoCheckpoint, files |-> <<>>, log |-> <<>>]

\* the ids a checkpoint file holds: none when it is absent or not valid JSON
CheckpointIds(c) == IF c.exists /\ ~c.torn THEN Range(c.ids) ELSE {}

Init ==
    /\ remoteList \in Listings(Ids)
    /\ remoteDetail \in [Ids -> Kinds]
    /\ clock = 1
    /\ checkpoint = NoCheckpoint
    /\ files = <<>>
    /\ dirs = {}
    /\ pc = "idle"
    /\ USERNAME = "alice"
    /\ SESSION_COOKIE = "cookie"
    /\ ONLY_ACCEPTED = TRUE
    /\ processed = {}
    /\ submissions = <<>>
    /\ offset = 0
    /\ new_ids = <<>>
    /\ pos = 0
    /\ pending = NoPending
    /\ runs = 0
    /\ exit = "none"
    /\ startCheckpoint = NoCheckpoint
    /\ startFiles = <<>>
    /\ startDirs = {}
    /\ fetchLog = <<>>
    /\ pageLog = <<>>
    /\ saves = 0
    /\ saved = {}
    /\ wrote = [i \in Ids |-> NoWrite]
    /\ stable = FALSE
    /\ listFailed = FALSE
    /\ prev = NoPrev

\* the process ends: its memory is gone
Forget ==
    /\ processed' = {}
    /\ submissions' = <<>>
    /\ offset' = 0
    /\ new_ids' = <<>>
    /\ pos' = 0
    /\ pending' = NoPending
    /\ ONLY_ACCEPTED' = ONLY_ACCEPTED
    /\ UNCHANGED creds

\* ----------------------------------------------------------------- state store
\* load_state, then main line 144: the processed set, or the failure of
\* json.loads on a file that is not valid JSON
LoadFails == checkpoint.exists /\ checkpoint.torn

\* the checkpoint file is never read back
load_state_ignores == <<>>

load_state == IF checkpoint.exists THEN checkpoint.ids ELSE <<>>

\* ------------------------------------------------------------- the invocation
\* only the user name is required
ConfigMissingUserOnly(user, cookie) == user = ""

\* not USERNAME or not SESSION_COOKIE, line 18
ConfigMissing(user, cookie) == user = "" \/ cookie = ""

\* the script starts as invocation number n with USERNAME' and
\* SESSION_COOKIE' in its environment: the configuration of lines 11-19, then
\* main() lines 143-146
Invoke(n) ==
    /\ pc = "idle"
    /\ runs' = n
    /\ ONLY_ACCEPTED' \in BOOLEAN
    /\ prev' = [exit |-> exit, stable |-> stable, only |-> ONLY_ACCEPTED,
                checkpoint |-> startCheckpoint, files |-> startFiles,
                log |-> fetchLog]
    /\ startCheckpoint' = checkpoint
    /\ startFiles' = files
    /\ startDirs' = dirs
    /\ fetchLog' = <<>>
    /\ pageLog' = <<>>
    /\ saves' = 0
    /\ stable' = TRUE
    /\ listFailed' = FALSE
    /\ submissions' = <<>>
    /\ offset' = 0
    /\ new_ids' = <<>>
    /\ pos' = 0
    /\ pending' = NoPending
    /\ IF ConfigMissing(USERNAME', SESSION_COOKIE')
       THEN /\ pc' = "idle"
            /\ exit' = "config"
            /\ processed' = {}
       ELSE IF LoadFails
       THEN /\ pc' = "idle"
            /\ exit' = "loadfail"
            /\ processed' = {}
       ELSE /\ pc' = "listing"
            /\ exit' = "running"
            /\ processed' = Range(load_state)
    /\ UNCHANGED <<env, disk, saved, wrote>>

\* the script is started, in any environment
StartRun ==
    /\ runs < MaxRuns
    /\ USERNAME' \in {"", "alice"}
    /\ SESSION_COOKIE' \in {"", "cookie"}
    /\ Invoke(runs + 1)

\* the remote's answer to submissionList(offset, limit)
RemotePage(off, limit) ==
    SubSeq(remoteList, off + 1,
           Min(Len(remoteList), off + Min(limit, ServerPageCap)))
RemoteHasNext(off, limit) == off + Len(RemotePage(off, limit)) < Len(remoteList)

\* no diff against the processed set
NewIdsAll(subs, done) == subs

\* the offset advances by the requested limit
NextOffsetByBatch(off, page) == off + BATCH_SIZE

\* the offset does not advance
NextOffsetStuck(off, page) == off

\* offset += len(page), line 110
NextOffset(off, page) == off + Len(page)

\* main line 150: the listed ids that are not in the processed set
NewIds(subs, done) == SelectSeq(subs, LAMBDA id : str(id) \notin done)

\* no return when there is nothing new
ListedNoShortCircuit(subs) ==
    /\ submissions' = subs
    /\ new_ids' = NewIds(subs, processed)
    /\ pc' = "loop"
    /\ exit' = exit
    /\ dirs' = dirs \cup {<<OUT_DIR>>}

\* fetch_submission_pages returns subs: main lines 148-156
Listed(subs) ==
    /\ submissions' = subs
    /\ new_ids' = NewIds(subs, processed)
    /\ IF NewIds(subs, processed) = <<>>
       THEN /\ pc' = "idle"
            /\ exit' = "nonew"
            /\ dirs' = dirs
       ELSE /\ pc' = "loop"
            /\ exit' = exit
            /\ dirs' = dirs \cup {<<OUT_DIR>>}

\* a failed page request treated as the end of the list
PageFailureEndsListing == Listed(submissions) /\ offset' = offset

\* what a failed page request does to main: raise_for_status or r.json()
\* raises in fetch_submission_pages and nothing catches it
OnPageFailure ==
    /\ pc' = "idle"
    /\ exit' = "listfail"
    /\ UNCHANGED <<submissions, offset, new_ids, dirs>>

\* one page request of fetch_submission_pages fails
PageFails ==
    /\ pc = "listing"
    /\ pageLog' = Append(pageLog, offset)
    /\ listFailed' = TRUE
    /\ OnPageFailure
    /\ UNCHANGED <<env, checkpoint, files, creds, ONLY_ACCEPTED, processed, pos,
                   pending, runs, startCheckpoint, startFiles, startDirs,
                   fetchLog, saves, saved, wrote, stable, prev>>

\* one iteration of the loop of fetch_submission_pages, lines 98-111
PageArrives ==
    /\ pc = "listing"
    /\ pageLog' = Append(pageLog, offset)
    /\ LET page == RemotePage(offset, BATCH_SIZE)
           has_next == RemoteHasNext(offset, BATCH_SIZE)
       IN IF page = <<>>
          THEN Listed(submissions) /\ offset' = offset
          ELSE IF ~has_next
               THEN Listed(submissions \o page) /\ offset' = offset
               ELSE /\ submissions' = submissions \o page
                    /\ offset' = NextOffset(offset, page)
                    /\ UNCHANGED <<pc, exit, new_ids, dirs>>
    /\ UNCHANGED <<env, checkpoint, files, creds, ONLY_ACCEPTED, processed, pos,
                   pending, runs, startCheckpoint, startFiles, startDirs,
                   fetchLog, saves, saved, wrote, stable, listFailed, prev>>

\* the loop goes through new_ids in the order of the listing
sidInListingOrder == new_ids[pos + 1]

\* the element of reversed(new_ids) the loop is at
InLoop == pc = "loop" /\ pos < Len(new_ids)
sid == Reversed(new_ids)[pos + 1]

\* a failed request marks the id processed
FetchRaisesAndMarks ==
    /\ InLoop
    /\ remoteDetail[sid] = "raise"
    /\ processed' = processed \cup {str(sid)}
    /\ pos' = pos + 1
    /\ fetchLog' = Append(fetchLog, [id |-> sid, outcome |-> "raise"])
    /\ UNCHANGED <<env, disk, pc, creds, ONLY_ACCEPTED, submissions, offset,
                   new_ids, pending, runs, exit, startCheckpoint, startFiles,
                   startDirs, pageLog, saves, saved, wrote, stable, listFailed, prev>>

\* a failed request is made again
FetchRaisesRetries ==
    /\ InLoop
    /\ remoteDetail[sid] = "raise"
    /\ fetchLog' = Append(fetchLog, [id |-> sid, outcome |-> "raise"])
    /\ UNCHANGED <<env, disk, pc, locals, runs, exit, startCheckpoint,
                   startFiles, startDirs, pageLog, saves, saved, wrote,
                   stable, listFailed, prev>>

\* fetch_submission_detail raises: lines 160-164
FetchRaises ==
    /\ InLoop
    /\ remoteDetail[sid] = "raise"
    /\ pos' = pos + 1
    /\ fetchLog' = Append(fetchLog, [id |-> sid, outcome |-> "raise"])
    /\ UNCHANGED <<env, disk, pc, creds, ONLY_ACCEPTED, processed, submissions, offset,
                   new_ids, pending, runs, exit, startCheckpoint, startFiles,
                   startDirs, pageLog, saves, saved, wrote, stable, listFailed, prev>>

\* an id without detail is marked processed
FetchNoDetailAndMarks ==
    /\ InLoop
    /\ remoteDetail[sid] = "null"
    /\ processed' = processed \cup {str(sid)}
    /\ pos' = pos + 1
    /\ fetchLog' = Append(fetchLog, [id |-> sid, outcome |-> "null"])
    /\ UNCHANGED <<env, disk, pc, creds, ONLY_ACCEPTED, submissions, offset,
                   new_ids, pending, runs, exit, startCheckpoint, startFiles,
                   startDirs, pageLog, saves, saved, wrote, stable, listFailed, prev>>

\* fetch_submission_detail returns nothing: lines 165-167
FetchNoDetail ==
    /\ InLoop
    /\ remoteDetail[sid] = "null"
    /\ pos' = pos + 1
    /\ fetchLog' = Append(fetchLog, [id |-> sid, outcome |-> "null"])
    /\ UNCHANGED <<env, disk, pc, creds, ONLY_ACCEPTED, processed, submissions, offset,
                   new_ids, pending, runs, exit, startCheckpoint, startFiles,
                   startDirs, pageLog, saves, saved, wrote, stable, listFailed, prev>>

\* a filtered id is not marked processed
FetchFilteredNoMark ==
    /\ InLoop
    /\ remoteDetail[sid] \in DetailKinds
    /\ IsFiltered(ONLY_ACCEPTED, DetailOf(sid, remoteDetail[sid]))
    /\ pos' = pos + 1
    /\ fetchLog' = Append(fetchLog, [id |-> sid, outcome |-> "filtered"])
    /\ UNCHANGED <<env, disk, pc, creds, ONLY_ACCEPTED, processed, submissions,
                   offset, new_ids, pending, runs, exit, startCheckpoint,
                   startFiles, startDirs, pageLog, saves, saved, wrote, stable,
                   listFailed, prev>>

\* the detail is not accepted and only accepted ones are kept: lines 169-173
FetchFiltered ==
    /\ InLoop
    /\ remoteDetail[sid] \in DetailKinds
    /\ IsFiltered(ONLY_ACCEPTED, DetailOf(sid, remoteDetail[sid]))
    /\ processed' = processed \cup {str(sid)}
    /\ pos' = pos + 1
    /\ fetchLog' = Append(fetchLog, [id |-> sid, outcome |-> "filtered"])
    /\ UNCHANGED <<env, disk, pc, creds, ONLY_ACCEPTED, submissions, offset, new_ids,
                   pending, runs, exit, startCheckpoint, startFiles, startDirs, pageLog,
                   saves, saved, wrote, stable, listFailed, prev>>

\* the detail is kept: lines 175-190, up to open(filename, "w"), which
\* creates the file or truncates it
FetchAndOpen ==
    /\ InLoop
    /\ remoteDetail[sid] \in DetailKinds
    /\ LET d == DetailOf(sid, remoteDetail[sid])
       IN /\ ~IsFiltered(ONLY_ACCEPTED, d)
          /\ dirs' = dirs \cup {FolderOf(d)}
          /\ files' = (FilenameOf(d, sid) :> TornFile) @@ files
          /\ pending' = [sid |-> sid, kind |-> remoteDetail[sid],
                         path |-> FilenameOf(d, sid),
                         data |-> ContentOf(d, sid, clock)]
    /\ pc' = "writing"
    /\ fetchLog' = Append(fetchLog, [id |-> sid, outcome |-> "write"])
    /\ UNCHANGED <<env, checkpoint, creds, ONLY_ACCEPTED, processed, submissions,
                   offset, new_ids, pos, runs, exit, startCheckpoint,
                   startFiles, startDirs, pageLog, saves, saved, wrote, stable, listFailed, prev>>

\* the order of decimal strings as text
TextBefore(a, b) ==
    \E k \in 1..(Len(b)) :
        /\ \A j \in 1..(k - 1) : j <= Len(a) /\ a[j] = b[j]
        /\ (k > Len(a) \/ a[k] < b[k])

\* the ids are sorted as text
RECURSIVE SortedAsText(_)
SortedAsText(done) ==
    IF done = {} THEN <<>>
    ELSE LET m == CHOOSE x \in done : \A y \in done \ {x} : TextBefore(x, y)
         IN <<m>> \o SortedAsText(done \ {m})

\* state["processed_ids"], line 197
SortedProcessed(done) == SortedByInt(done)

\* the checkpoint is saved after every item
WriteFileAndSave ==
    /\ pc = "writing"
    /\ files' = (pending.path :> [torn |-> FALSE, data |-> pending.data]) @@ files
    /\ processed' = processed \cup {str(pending.sid)}
    /\ checkpoint' = [exists |-> TRUE, torn |-> FALSE,
                      ids |-> SortedProcessed(processed \cup {str(pending.sid)})]
    /\ wrote' = [wrote EXCEPT ![pending.sid] =
                    [kind |-> pending.kind, path |-> pending.path,
                     data |-> pending.data]]
    /\ pos' = pos + 1
    /\ pending' = NoPending
    /\ pc' = "loop"
    /\ UNCHANGED <<env, dirs, creds, ONLY_ACCEPTED, submissions, offset,
                   new_ids, runs, exit, startCheckpoint, startFiles, startDirs,
                   fetchLog, pageLog, saves, saved, stable, listFailed, prev>>

\* f.write(content), the file is closed, processed.add: lines 191-195
WriteFile ==
    /\ pc = "writing"
    /\ files' = (pending.path :> [torn |-> FALSE, data |-> pending.data]) @@ files
    /\ processed' = processed \cup {str(pending.sid)}
    /\ wrote' = [wrote EXCEPT ![pending.sid] =
                    [kind |-> pending.kind, path |-> pending.path,
                     data |-> pending.data]]
    /\ pos' = pos + 1
    /\ pending' = NoPending
    /\ pc' = "loop"
    /\ UNCHANGED <<env, checkpoint, dirs, creds, ONLY_ACCEPTED, submissions, offset,
                   new_ids, runs, exit, startCheckpoint, startFiles, startDirs,
                   fetchLog, pageLog, saves, saved, stable, listFailed, prev>>

\* the loop is over: lines 197-198 up to the open of write_text, which
\* creates the checkpoint file or truncates it
SaveOpen ==
    /\ pc = "loop"
    /\ pos = Len(new_ids)
    /\ checkpoint' = TornCheckpoint
    /\ saves' = saves + 1
    /\ pc' = "saving"
    /\ UNCHANGED <<env, files, dirs, locals, runs, exit, startCheckpoint,
                   startFiles, startDirs, fetchLog, pageLog, saved, wrote, stable, listFailed, prev>>

\* write_text writes the JSON text and closes the file; main returns
SaveWrite ==
    /\ pc = "saving"
    /\ checkpoint' = [exists |-> TRUE, torn |-> FALSE,
                      ids |-> SortedProcessed(processed)]
    /\ saved' = saved \cup processed
    /\ pc' = "idle"
    /\ exit' = "done"
    /\ UNCHANGED <<env, files, dirs, locals, runs, startCheckpoint, startFiles,
                   startDirs, fetchLog, pageLog, saves, wrote, stable, listFailed, prev>>

\* the process is killed: its memory is lost, the disk stays as it is
Kill ==
    /\ pc # "idle"
    /\ pc' = "idle"
    /\ exit' = "killed"
    /\ Forget
    /\ UNCHANGED <<env, disk, runs, startCheckpoint, startFiles, startDirs,
                   fetchLog, pageLog, saves, saved, wrote, stable, listFailed, prev>>

\* ------------------------------------------------------------ the environment
\* between two invocations the remote's list changes (one change of the
\* remote between two invocations)
RemoteListChanges ==
    /\ pc = "idle"
    /\ 0 < runs /\ runs < MaxRuns
    /\ stable
    /\ \E l \in Listings(Ids) : l # remoteList /\ remoteList' = l
    /\ stable' = FALSE
    /\ UNCHANGED <<remoteDetail, clock, disk, pc, locals, runs, exit,
                   startCheckpoint, startFiles, startDirs, fetchLog, pageLog, saves,
                   saved, wrote, listFailed, prev>>

\* between two invocations the answer for one id changes
RemoteDetailChanges ==
    /\ pc = "idle"
    /\ 0 < runs /\ runs < MaxRuns
    /\ stable
    /\ \E i \in Ids, k \in Kinds :
          /\ k # remoteDetail[i]
          /\ remoteDetail' = [remoteDetail EXCEPT ![i] = k]
    /\ stable' = FALSE
    /\ UNCHANGED <<remoteList, clock, disk, pc, locals, runs, exit,
                   startCheckpoint, startFiles, startDirs, fetchLog, pageLog, saves,
                   saved, wrote, listFailed, prev>>

\* time passes
Tick ==
    /\ clock < 1 + MaxClock
    /\ clock' = clock + 1
    /\ UNCHANGED <<remoteList, remoteDetail, disk, pc, locals, history>>

Next ==
    \/ StartRun
    \/ PageFails
    \/ PageArrives
    \/ FetchRaises
    \/ FetchNoDetail
    \/ FetchFiltered
    \/ FetchAndOpen
    \/ WriteFile
    \/ SaveOpen
    \/ SaveWrite
    \/ Kill
    \/ RemoteListChanges
    \/ RemoteDetailChanges
    \/ Tick

Spec == Init /\ [][Next]_vars

\* ------------------------------------------------ the script run on a schedule
\* The script is started again and again with its configuration set, every
\* request gets its answer, no invocation is killed, the remote's list is
\* fixed, and a detail request that fails succeeds in some later invocation.

\* the scheduler starts the script; invocations past MaxRuns count as MaxRuns
StartConfigured ==
    /\ USERNAME' = "alice"
    /\ SESSION_COOKIE' = "cookie"
    /\ Invoke(IF runs < MaxRuns THEN runs + 1 ELSE MaxRuns)

\* between two invocations the detail request of an id that failed starts to
\* succeed
RemoteRecovers ==
    /\ pc = "idle"
    /\ \E i \in Ids, k \in DetailKinds :
          /\ remoteDetail[i] \notin DetailKinds
          /\ remoteDetail' = [remoteDetail EXCEPT ![i] = k]
    /\ stable' = FALSE
    /\ UNCHANGED <<remoteList, clock, disk, pc, locals, runs, exit,
                   startCheckpoint, startFiles, startDirs, fetchLog, pageLog, saves,
                   saved, wrote, listFailed, prev>>

\* one step of an invocation whose requests are answered
Step ==
    \/ PageArrives
    \/ FetchRaises
    \/ FetchNoDetail
    \/ FetchFiltered
    \/ FetchAndOpen
    \/ WriteFile
    \/ SaveOpen
    \/ SaveWrite

ScheduledNext ==
    \/ StartConfigured
    \/ PageArrives
    \/ FetchRaises
    \/ FetchNoDetail
    \/ FetchFiltered
    \/ FetchAndOpen
    \/ WriteFile
    \/ SaveOpen
    \/ SaveWrite
    \/ RemoteRecovers

ScheduledSpec ==
    /\ Init
    /\ [][ScheduledNext]_vars
    /\ WF_vars(StartConfigured)
    /\ WF_vars(Step)
    /\ SF_vars(RemoteRecovers)

\* ===================================================================== claims
\* the submission id in an artifact's path
PathSid(p) == p[3][5]

\* no artifact of submission id was created or altered since the invocation
\* started
NoFileChangeFor(id) ==
    \A p \in DOMAIN files :
        PathSid(p) = str(id) => p \in DOMAIN startFiles /\ files[p] = startFiles[p]

Fetched == {fetchLog[i].id : i \in 1..Len(fetchLog)}
FailedIn(log) ==
    {log[i].id : i \in {j \in 1..Len(log) : log[j].outcome \in {"raise", "null"}}}
Complete == pc = "idle" /\ exit \in {"done", "nonew"}

\* C1: an id that was in a completely written checkpoint is in the checkpoint
\* file whenever no invocation is in progress: no invocation, however it
\* ended, removes an id.
C1_CheckpointNeverShrinks == pc = "idle" => saved \subseteq CheckpointIds(checkpoint)

\* C2: no invocation requests the detail of an id that an earlier invocation
\* saved in the checkpoint, whatever the remote lists.
C2_SavedIdNeverFetchedAgain ==
    pc # "idle" => \A id \in Fetched : str(id) \notin saved

C2_Witness ==
    /\ pc = "loop"
    /\ fetchLog # <<>>
    /\ \E id \in Range(submissions) : str(id) \in saved

\* the invocation follows a complete one, and the remote has answered the
\* same since that one started
Second == runs >= 2 /\ prev.exit \in {"done", "nonew"} /\ prev.stable /\ stable

\* C3: an invocation that follows a complete invocation, with the remote
\* unchanged since that one started, changes no artifact and no directory,
\* and when it completes the checkpoint is what the first one left.
C3_SecondRunChangesNothing ==
    Second =>
        /\ files = startFiles
        /\ dirs = startDirs
        /\ Complete => checkpoint = startCheckpoint

C3_Witness ==
    /\ Second
    /\ Complete
    /\ exit = "done"
    /\ fetchLog # <<>>
    /\ files # <<>>
    /\ CheckpointIds(checkpoint) # {}

\* the remote answers a detail for id whose status is not "Accepted"
NotAccepted(id) ==
    /\ remoteDetail[id] \in DetailKinds
    /\ DetailOf(id, remoteDetail[id]).statusDisplay # "Accepted"

\* C4: with ONLY_ACCEPTED enabled, an id whose fetched detail is not
\* "Accepted" gets no artifact in this invocation, is in the processed set,
\* and is in the checkpoint the invocation saves.
C4_FilteredIsPermanentSkip ==
    \A id \in Fetched :
        (stable /\ ONLY_ACCEPTED /\ NotAccepted(id)) =>
            /\ NoFileChangeFor(id)
            /\ exit # "killed" => str(id) \in processed
            /\ exit = "done" => str(id) \in CheckpointIds(checkpoint)

C4_Witness ==
    /\ Complete
    /\ \E id \in Fetched :
          /\ stable /\ ONLY_ACCEPTED /\ NotAccepted(id)
          /\ str(id) \in CheckpointIds(checkpoint)
          /\ str(id) \notin CheckpointIds(startCheckpoint)

\* the remote fails the detail request for id, or answers no detail
FetchFailed(id) == remoteDetail[id] \in {"raise", "null"}

\* C5: an id whose detail request raised or returned nothing gets no
\* artifact and is not marked processed, the invocation goes on to the
\* remaining new ids and saves, and the next invocation that lists the id
\* requests its detail again.
C5_FailedFetchLeavesIdUnprocessed ==
    /\ \A id \in Fetched :
          (stable /\ FetchFailed(id)) =>
              /\ NoFileChangeFor(id)
              /\ exit # "killed" => str(id) \notin processed
              /\ exit = "done" => str(id) \notin CheckpointIds(checkpoint)
    /\ pc = "loop" => Len(fetchLog) = pos
    /\ exit = "done" => Fetched = Range(new_ids)
    /\ (exit = "done" /\ prev.exit # "none") =>
          \A id \in FailedIn(prev.log) :
              id \in Range(submissions) => id \in Fetched

C5_Witness ==
    /\ exit = "done"
    /\ prev.exit = "done"
    /\ \E id \in FailedIn(prev.log) : id \in Fetched
    /\ \E id \in FailedIn(fetchLog) :
          \E later \in Fetched : str(later) \in processed /\ later # id
                                 /\ fetchLog[Len(fetchLog)].id = later

\* C6: when a page request fails the invocation is over, and it has
\* requested no detail, written no artifact, created no directory, not
\* written the checkpoint and not computed the new ids from the pages it had.
C6_ListerFailureIsFatal ==
    /\ listFailed =>
          /\ pc = "idle"
          /\ exit = "listfail"
          /\ fetchLog = <<>>
          /\ new_ids = <<>>
          /\ checkpoint = startCheckpoint
          /\ files = startFiles
          /\ dirs = startDirs
    /\ pc = "listing" =>
          /\ fetchLog = <<>>
          /\ new_ids = <<>>
          /\ checkpoint = startCheckpoint
          /\ files = startFiles
          /\ dirs = startDirs

C6_Witness ==
    /\ listFailed
    /\ NewIds(submissions, processed) # <<>>

\* C7: when the diff of a complete listing against the loaded checkpoint is
\* empty the invocation ends normally, having requested no detail, written
\* no artifact, created no directory and not written the checkpoint.
C7_NoNewItemsShortCircuit ==
    /\ (Complete /\ NewIds(submissions, CheckpointIds(startCheckpoint)) = <<>>) =>
          /\ exit = "nonew"
          /\ fetchLog = <<>>
          /\ saves = 0
          /\ checkpoint = startCheckpoint
          /\ files = startFiles
          /\ dirs = startDirs
    /\ pc \in {"loop", "writing", "saving"} => new_ids # <<>>

C7_Witness ==
    /\ Complete
    /\ exit = "nonew"
    /\ submissions # <<>>

\* C8: an invocation calls save_state at most once, and only when the loop
\* over the new ids is over; until then the checkpoint file is what it was
\* when the invocation started, so an invocation killed before the save
\* leaves it so, and leaves the artifacts it had completely written.
C8_CheckpointSavedOnceAtTheEnd ==
    /\ saves <= 1
    /\ saves = 0 => checkpoint = startCheckpoint
    /\ pc = "saving" => saves = 1 /\ pos = Len(new_ids)
    /\ pc \in {"listing", "loop", "writing"} => saves = 0
    /\ (exit = "killed" /\ saves = 0) =>
          \A i \in 1..(Len(fetchLog) - 1) :
              fetchLog[i].outcome = "write" =>
                  LET w == wrote[fetchLog[i].id]
                  IN /\ w.path \in DOMAIN files
                     /\ files[w.path] = [torn |-> FALSE, data |-> w.data]

C8_Witness ==
    /\ exit = "killed"
    /\ pc = "idle"
    /\ saves = 0
    /\ Len(fetchLog) >= 2
    /\ fetchLog[1].outcome = "write"
    /\ checkpoint = startCheckpoint
    /\ files # startFiles


\* a complete invocation that follows a killed one, with the remote unchanged
\* since the killed one started and the same configuration
Rerun ==
    /\ Complete
    /\ prev.exit = "killed"
    /\ prev.stable
    /\ stable
    /\ prev.only = ONLY_ACCEPTED

\* what one uninterrupted invocation does from checkpoint c
RunNew(c) == Range(NewIds(remoteList, CheckpointIds(c)))
RunMarked(c) == {id \in RunNew(c) : remoteDetail[id] \in DetailKinds}
RunKept(c, only) ==
    {id \in RunMarked(c) : ~IsFiltered(only, DetailOf(id, remoteDetail[id]))}
RunCheckpoint(c) ==
    IF RunNew(c) = {} THEN c
    ELSE [exists |-> TRUE, torn |-> FALSE,
          ids |-> SortedByInt(CheckpointIds(c) \cup {str(id) : id \in RunMarked(c)})]
RunPath(id) == FilenameOf(DetailOf(id, remoteDetail[id]), id)
RunPaths(c, only) == {RunPath(id) : id \in RunKept(c, only)}

\* after the rerun the checkpoint and the paths are those of one
\* uninterrupted invocation, and so are the bytes for some time of writing
RerunMatchesUpToClock ==
    Rerun =>
        /\ checkpoint = RunCheckpoint(prev.checkpoint)
        /\ DOMAIN files = DOMAIN prev.files \cup RunPaths(prev.checkpoint, ONLY_ACCEPTED)
        /\ \A p \in DOMAIN prev.files \ RunPaths(prev.checkpoint, ONLY_ACCEPTED) :
              files[p] = prev.files[p]
        /\ \A id \in RunKept(prev.checkpoint, ONLY_ACCEPTED) :
              /\ ~files[RunPath(id)].torn
              /\ \E t \in 1..(1 + MaxClock) :
                    files[RunPath(id)].data =
                        ContentOf(DetailOf(id, remoteDetail[id]), id, t)

\* the artifacts the killed invocation completely wrote
WrittenBeforeKill ==
    {p \in DOMAIN startFiles :
        /\ ~startFiles[p].torn
        /\ p \in DOMAIN prev.files => prev.files[p] # startFiles[p]}

\* C9: against an unchanged remote and with the same configuration, an
\* invocation that was killed followed by a complete one leaves the
\* checkpoint and the artifacts (paths and bytes) that one uninterrupted
\* invocation started in place of the killed one would have left: the
\* artifacts the killed invocation had completely written are what the
\* uninterrupted one would have written, so they keep their bytes.
C9_KilledThenRerunEqualsOneRun ==
    /\ RerunMatchesUpToClock
    /\ Rerun => \A p \in WrittenBeforeKill : files[p] = startFiles[p]

\* C10: the path and the bytes the Writer produces depend only on the
\* detail: a detail written a second time, at any later time, goes to the
\* same path with the same content.
C10_WriterIsPure ==
    (pc = "writing" /\ wrote[pending.sid].kind = pending.kind) =>
        /\ pending.path = wrote[pending.sid].path
        /\ pending.data = wrote[pending.sid].data

\* the place of an id in the sequence the Lister returned
IndexIn(seq, x) == CHOOSE i \in 1..Len(seq) : seq[i] = x

\* the invocation is past the listing and was not killed
PastListing == pc \in {"loop", "writing", "saving"} \/ (pc = "idle" /\ exit = "done")

\* the new ids of this invocation, as the Lister delivered them
Delivered(k) == str(submissions[k]) \notin CheckpointIds(startCheckpoint)

\* C11: the details are requested in the reverse of the order in which the
\* Lister delivered the new ids, none of them skipped: a new id delivered
\* later (an older submission) has its detail requested, and its artifact
\* completely written, before the request of any id delivered earlier.
C11_OldestFirst ==
    PastListing =>
        /\ \A i, j \in 1..Len(fetchLog) :
              i < j => IndexIn(submissions, fetchLog[i].id)
                           > IndexIn(submissions, fetchLog[j].id)
        /\ \A i \in 1..Len(fetchLog), k \in 1..Len(submissions) :
              (Delivered(k) /\ k > IndexIn(submissions, fetchLog[i].id))
                  => \E j \in 1..(i - 1) : fetchLog[j].id = submissions[k]
        /\ \A i \in 1..(Len(fetchLog) - 1) :
              fetchLog[i].outcome = "write" =>
                  /\ wrote[fetchLog[i].id].path \in DOMAIN files
                  /\ ~files[wrote[fetchLog[i].id].path].torn
        /\ pc = "writing" => pending.sid = fetchLog[Len(fetchLog)].id

\* two new ids were delivered, the older one was written, then the newer one
C11_Witness ==
    /\ pc = "idle" /\ exit = "done"
    /\ Len(submissions) = 2
    /\ Len(fetchLog) = 2
    /\ fetchLog[1].id = submissions[2]
    /\ fetchLog[1].outcome = "write"
    /\ fetchLog[2].outcome = "write"

ListingOver == pc \in {"loop", "writing", "saving"} \/ (Complete /\ stable)

\* the page request at offset off ends the pagination
LastPage(off) ==
    RemotePage(off, BATCH_SIZE) = <<>> \/ ~RemoteHasNext(off, BATCH_SIZE)

\* C13: against a remote that serves its N submissions in pages of at most
\* BATCH_SIZE with a correct has-more flag, the Lister returns exactly the
\* remote's sequence, in the remote's order (the empty sequence when N = 0);
\* while it runs it holds the first offset submissions, and it stops at the
\* first page that is empty or has a false has-more flag.
C13_ListerReturnsAll ==
    /\ pc = "listing" =>
          /\ offset <= Len(remoteList)
          /\ submissions = SubSeq(remoteList, 1, offset)
    /\ ListingOver =>
          /\ submissions = remoteList
          /\ pageLog # <<>>
          /\ \A i \in 1..Len(pageLog) : LastPage(pageLog[i]) <=> i = Len(pageLog)

\* two submissions were delivered over two pages
C13_Witness ==
    /\ pc = "loop"
    /\ Len(pageLog) = 2
    /\ Len(submissions) = 2
    /\ submissions = remoteList

\* the ids this invocation marked processed
MarkedInRun ==
    {str(fetchLog[i].id) :
        i \in {j \in 1..Len(fetchLog) : fetchLog[j].outcome \in {"filtered", "write"}}}

\* C14: a completely written checkpoint lists its ids in strictly ascending
\* numeric order, so each id once, and the checkpoint a finished invocation
\* saved holds exactly the ids of the checkpoint it loaded and the ids it
\* marked processed.
C14_CheckpointSortedUnion ==
    /\ (checkpoint.exists /\ ~checkpoint.torn) =>
          \A i \in 1..(Len(checkpoint.ids) - 1) :
              int(checkpoint.ids[i]) < int(checkpoint.ids[i + 1])
    /\ (pc = "idle" /\ exit = "done") =>
          /\ checkpoint.exists /\ ~checkpoint.torn
          /\ Range(checkpoint.ids) = CheckpointIds(startCheckpoint) \cup MarkedInRun

\* an invocation that loaded "10" marked 9 and saved "9", "10"
C14_Witness ==
    /\ pc = "idle" /\ exit = "done"
    /\ startCheckpoint.ids = <<str(10)>>
    /\ MarkedInRun = {str(9)}
    /\ checkpoint.ids = <<str(9), str(10)>>

\* C15: an invocation whose user name or session cookie is unset or empty
\* ends abnormally at once: it makes no page request and no detail request,
\* does not load the checkpoint, saves nothing, and leaves the checkpoint,
\* the artifacts and the directories as they were.
C15_MissingConfigIsFatal ==
    (USERNAME = "" \/ SESSION_COOKIE = "") =>
        /\ pc = "idle"
        /\ exit = "config"
        /\ pageLog = <<>>
        /\ fetchLog = <<>>
        /\ processed = {}
        /\ saves = 0
        /\ checkpoint = startCheckpoint
        /\ files = startFiles
        /\ dirs = startDirs

\* the cookie is missing while there is a checkpoint to load and
\* submissions to list
C15_Witness ==
    /\ USERNAME = "alice"
    /\ SESSION_COOKIE = ""
    /\ exit = "config"
    /\ checkpoint.exists
    /\ remoteList # <<>>

\* what the claim expects for each kind of detail the remote answers with:
\* the extension and the comment leader of its language tag, lower-cased
\* ("Python3", "Brainfuck", "C++", "Java"), and its question id and slug
ExpectedExt(k) ==
    CASE k = "py" -> "py" [] k = "bf" -> "txt" [] k = "wa" -> "cpp" [] k = "java" -> "java"
ExpectedLeader(k) == IF k = "py" THEN "#" ELSE "//"
ExpectedQid(k) == IF k = "java" THEN "" ELSE "1"
ExpectedSlug(k) == IF k = "java" THEN "unknown-" ELSE "two-sum"

\* path and data are what the Writer derives for submission id of kind k
Derived(id, k, path, data) ==
    /\ path = << OUT_DIR,
                 <<ExpectedQid(k), "_", ExpectedSlug(k)>>,
                 <<ExpectedQid(k), "-", ExpectedSlug(k), "-", str(id), ".",
                   ExpectedExt(k)>> >>
    /\ \A i \in 1..9 : data[2 * i - 1][1] = ExpectedLeader(k)

\* C16: an artifact is written to
\* {root}/{questionId}_{slug}/{questionId}-{slug}-{submissionId}.{ext}, and
\* every line of its header starts with the comment leader, where the
\* extension and the leader are those the fixed table gives for the
\* lower-cased language tag, and "txt" and "//" for a tag the table lacks.
C16_PathAndLeader ==
    /\ \A id \in Ids :
          wrote[id].kind # "none" =>
              Derived(id, wrote[id].kind, wrote[id].path, wrote[id].data)
    /\ pc = "writing" =>
          Derived(pending.sid, pending.kind, pending.path, pending.data)

\* one artifact in a language of the table, one in a language it lacks
C16_Witness ==
    \E a, b \in Ids :
        /\ wrote[a].kind = "py"
        /\ wrote[b].kind = "bf"
        /\ wrote[a].path \in DOMAIN files
        /\ wrote[b].path \in DOMAIN files

\* the detail request i of this invocation is over, artifact included
RequestOver(i) == ~(pc = "writing" /\ i = Len(fetchLog))

\* C17: with ONLY_ACCEPTED disabled no id is filtered: every id whose detail
\* request returned a detail, whatever its status, goes to the Writer, and
\* unless the invocation is killed its artifact is completely written, it is
\* marked processed, and it is in the checkpoint the invocation saves.
C17_NoFilterWhenDisabled ==
    ~ONLY_ACCEPTED =>
        \A i \in 1..Len(fetchLog) :
            LET id == fetchLog[i].id IN
            /\ fetchLog[i].outcome # "filtered"
            /\ (stable /\ remoteDetail[id] \in DetailKinds) =>
                  /\ fetchLog[i].outcome = "write"
                  /\ (exit # "killed" /\ RequestOver(i)) =>
                        /\ str(id) \in processed
                        /\ RunPath(id) \in DOMAIN files
                        /\ ~files[RunPath(id)].torn
                  /\ (pc = "idle" /\ exit = "done") =>
                        str(id) \in CheckpointIds(checkpoint)

\* a submission that was not accepted is written and saved
C17_Witness ==
    /\ ~ONLY_ACCEPTED
    /\ pc = "idle" /\ exit = "done" /\ stable
    /\ \E i \in 1..Len(fetchLog) :
          /\ NotAccepted(fetchLog[i].id)
          /\ RunPath(fetchLog[i].id) \in DOMAIN files
          /\ str(fetchLog[i].id) \in CheckpointIds(checkpoint)

\* the decimal string s was marked through an outcome that allows it: its id
\* was listed by this invocation, its detail request returned a detail, and
\* the detail was filtered out or its artifact is completely written
MarkedByOutcome(s) ==
    \E i \in 1..Len(fetchLog) :
        LET id == fetchLog[i].id IN
        /\ str(id) = s
        /\ id \in Range(submissions)
        /\ stable => remoteDetail[id] \in DetailKinds
        /\ \/ /\ fetchLog[i].outcome = "filtered"
              /\ ONLY_ACCEPTED
              /\ stable => NotAccepted(id)
           \/ /\ fetchLog[i].outcome = "write"
              /\ RequestOver(i)
              /\ wrote[id].path \in DOMAIN files
              /\ files[wrote[id].path] = [torn |-> FALSE, data |-> wrote[id].data]

\* C18: an id gets into the processed set, and from there into the saved
\* checkpoint, only through a successful outcome: every id that is processed
\* and was not in the loaded checkpoint was listed by this invocation, had
\* its detail returned, and was filtered out or has its complete artifact
\* on disk.
C18_MarkedOnlyOnSuccess ==
    /\ pc \in {"loop", "writing", "saving"} =>
          \A s \in processed \ CheckpointIds(startCheckpoint) : MarkedByOutcome(s)
    /\ (pc = "idle" /\ exit = "done") =>
          \A s \in CheckpointIds(checkpoint) \ CheckpointIds(startCheckpoint) :
              MarkedByOutcome(s)

\* of two new ids, the one without detail stays out of the saved checkpoint
\* and the written one is in it
C18_Witness ==
    /\ pc = "idle" /\ exit = "done"
    /\ \E i, j \in 1..Len(fetchLog) :
          /\ fetchLog[i].outcome = "null"
          /\ str(fetchLog[i].id) \notin CheckpointIds(checkpoint)
          /\ fetchLog[j].outcome = "write"
          /\ str(fetchLog[j].id) \in CheckpointIds(checkpoint) \ CheckpointIds(startCheckpoint)

\* every detail request of this invocation returned a detail
AllDetailsReturned ==
    \A i \in 1..Len(fetchLog) : fetchLog[i].outcome \in {"filtered", "write"}

\* the checkpoint holds every id the Lister returned
AllListedSaved ==
    \A k \in 1..Len(submissions) : str(submissions[k]) \in CheckpointIds(checkpoint)

\* C19: an invocation that listed new ids and got a detail for each of them
\* ends with every id the Lister returned in the saved checkpoint; and when
\* the script is run again and again against a fixed list, every failing
\* detail request succeeding in some later invocation, some invocation finds
\* no new ids.
C19_Converges ==
    /\ []((pc = "idle" /\ exit = "done" /\ AllDetailsReturned) => AllListedSaved)
    /\ <>(pc = "idle" /\ exit = "nonew")

\* an invocation finds nothing new among two listed ids after the one before
\* it processed some
C19_Witness ==
    /\ pc = "idle" /\ exit = "nonew"
    /\ Len(submissions) = 2
    /\ prev.exit = "done"
    /\ prev.log # <<>>

\* a bound on the number of steps the invocation has left: the submissions
\* not yet listed and the new ids not yet visited
Variant ==
    CASE pc = "idle"    -> 0
      [] pc = "saving"  -> 1
      [] pc = "writing" -> 1 + 2 * (Len(new_ids) - pos)
      [] pc = "loop"    -> 2 + 2 * (Len(new_ids) - pos)
      [] pc = "listing" -> 3 + 3 * Len(remoteList) - offset

\* C20: every invocation terminates: each of its steps brings it closer to
\* its end (a page request moves the offset on by the size of the page or
\* ends the listing, a pass of the loop moves to the next new id, the save
\* ends the invocation), and an invocation whose requests are answered ends.
C20_EveryRunTerminates ==
    /\ [][pc # "idle" => Variant' < Variant]_<<pc, locals>>
    /\ (pc # "idle") ~> (pc = "idle")

\* an invocation ended after two page requests and two passes of the loop
C20_Witness ==
    /\ pc = "idle" /\ exit = "done"
    /\ Len(pageLog) = 2
    /\ pos = 2
    /\ Variant = 0

====
